---------------------------- MODULE Spec2Model ----------------------------
(***************************************************************************)
(* Model of the authenticated HTTP client of the admin panel:              *)
(*   src/src/lib/axiosInstance.ts        (interceptors, refresh protocol)  *)
(*   src/src/components/ProtectedRoute.tsx  (useAuthStore: session store)  *)
(*                                                                         *)
(* One action is one event-loop task together with the microtasks it       *)
(* schedules: JavaScript runs a handler and every promise continuation it  *)
(* makes runnable before the next network event or click is delivered.     *)
(***************************************************************************)
EXTENDS Integers, Sequences, FiniteSets, TLC

(* ----------------------------- bounds --------------------------------- *)
\* number of requests the pages issue through the client
NumRequests == 3
\* number of 401 answers the backend gives to requests of the client
Max401 == 3

Requests == 1..NumRequests

(* --------------------------- token values ----------------------------- *)
\* the store's "no token" value (authStore initial state and logout)
Null == "null"
\* res.data.accessToken of a 2xx refresh answer that carries no accessToken
Undefined == "undefined"
\* tokens rehydrated by the persist middleware from an earlier session
StoredAccess == "a0"
StoredRefresh == "r0"
StoredUser == "u0"
\* the access token the k-th settled refresh call hands out: each one is fresh
NewToken(k) == "new" \o ToString(k)
\* what the body of a 2xx refresh answer can carry as accessToken
RefreshAnswers(k) == {NewToken(k), Undefined}
\* ways the refresh call can fail: an error status, or no response at all
RefreshFailures == {"401", "neterr"}
\* answers to a request of the client: 2xx, 401, another error status, no response
Statuses == {"200", "401", "500", "neterr"}

\* JavaScript truthiness of a token value (`token &&`, `refreshToken` in a guard)
Truthy(t) == t \notin {Null, Undefined}

\* the Authorization header value `Bearer ${token}`; NoAuth: header absent
Bearer(t) == <<"Bearer", t>>
NoAuth == <<>>

\* the browser build: `typeof window !== "undefined"`
HasWindow == TRUE

(* ------------------------------ state --------------------------------- *)
VARIABLES
  accessToken,      \* useAuthStore state
  refreshToken,
  user,
  isRefreshing,     \* module state of axiosInstance.ts
  failedQueue,      \* sequence of waiters, each named by its request
  pc,               \* per request: where its promise chain stands
  retry,            \* per request: originalRequest._retry
  auth,             \* per request: config.headers.Authorization
  sends,            \* per request: times it was put on the wire
  refreshInFlight,  \* outstanding axios.post(/auth/refresh-token) calls
  refreshCalls,     \* calls made to the refresh endpoint so far
  n401,             \* 401 answers given so far
  location,         \* window.location.href
  outcome,          \* per request: what its caller received in the last task
  settled,          \* settlements made by processQueue in the last task, in order
  last,             \* the event the last task handled
  loading,          \* useAuthStore state written by login
  authError         \* useAuthStore's `error` (the name is taken by parameters)

vars == <<accessToken, refreshToken, user, isRefreshing, failedQueue, pc, retry,
          auth, sends, refreshInFlight, refreshCalls, n401, location,
          outcome, settled, last>>

storeVars == <<accessToken, refreshToken, user>>

loginVars == <<loading, authError>>

(* ---------------------------- page state ------------------------------ *)
VARIABLES
  pageLoading,      \* `loading` of the page the specification is about
  pageError,        \* its `error`
  search,           \* its search box
  posts,            \* BlogPage state
  total,
  page,
  pageSize,
  statusFilter,
  tagFilter,
  selected,
  loads,            \* BlogPage: loadPosts calls awaiting api.get, in issue order
  users,            \* UsersPage state
  roleFilter,
  pagination,       \* PaginationState of the page the specification is about
  list,            \* pagination.ts: the `items` handed to paginate
  concat,           \* the pages 1..pagination.page of list, concatenated
  viewMode,         \* QuestionsPage navigation state
  selectedSubject,
  selectedChapter,
  subjects,         \* QuestionsPage: the lists as last loaded (ids)
  chapters,
  deletes,          \* QuestionsPage: delete handlers awaiting their DELETE call
  gone,             \* subjects and chapters the backend has deleted
  reloads           \* QuestionsPage: load() calls awaiting their answers

\* `selected` when no post is selected (null); posts are numbered from 1
NoPost == 0

flagVars == <<pageLoading, pageError>>

blogVars == <<posts, total, page, pageSize, statusFilter, tagFilter, selected, loads>>

\* BlogPage before it is mounted: the useState initial values
BlogAtRest ==
  /\ posts = <<>>
  /\ total = 0
  /\ page = 1
  /\ pageSize = 10
  /\ statusFilter = "all"
  /\ tagFilter = ""
  /\ selected = NoPost
  /\ loads = <<>>

usersVars == <<users, roleFilter>>

listVars == <<list, concat>>

navVars == <<viewMode, selectedSubject, selectedChapter>>

questionsVars == <<navVars, subjects, chapters, deletes, gone, reloads>>

\* QuestionsPage before it is mounted: the useState initial values
QuestionsAtRest ==
  /\ viewMode = "subjects"
  /\ selectedSubject = Null
  /\ selectedChapter = Null
  /\ subjects = {}
  /\ chapters = {}
  /\ deletes = {}
  /\ gone = {}
  /\ reloads = 0

\* no list is being paged through
ListAtRest == list = <<>> /\ concat = <<>>

\* UsersPage before it is mounted: the useState initial values
UsersAtRest ==
  /\ users = <<>>
  /\ roleFilter = "all"

\* no page mounted
PagesAtRest ==
  /\ pageLoading = TRUE
  /\ pageError = Null
  /\ search = ""
  /\ pagination = [page |-> 1, pageSize |-> 10]
  /\ BlogAtRest
  /\ UsersAtRest
  /\ ListAtRest
  /\ QuestionsAtRest

pageVars == <<flagVars, search, pagination, blogVars, usersVars, listVars,
              questionsVars>>

\* what the client never writes
otherVars == <<loginVars, pageVars>>

allVars == <<vars, otherVars>>

\* refresh calls that have settled so far
refreshDone == refreshCalls - Cardinality(refreshInFlight)

\* nothing was handed to the caller
Pending == [src |-> "none", status |-> "none", send |-> 0]
NoOutcome == [r \in Requests |-> Pending]
\* processQueue(null, token): no error
NoError == "none"

(* ------------------------- session store ------------------------------ *)
\* logout as it would be with the refresh token forgotten in the set() call
logout_KeepsRefreshToken ==
  [user |-> Null, accessToken |-> Null, refreshToken |-> refreshToken]

\* logout as it would be with the access token forgotten in the set() call
logout_KeepsAccessToken ==
  [user |-> Null, accessToken |-> accessToken, refreshToken |-> Null]

\* useAuthStore.logout: set({ user: null, accessToken: null, refreshToken: null })
logout == [user |-> Null, accessToken |-> Null, refreshToken |-> Null]

\* setTokens as it would be with the access token left out of the set() call
setTokens_KeepsAccess(a, r) ==
  [user |-> user, accessToken |-> accessToken, refreshToken |-> r]

\* useAuthStore.setTokens: set({ accessToken, refreshToken }); user is kept
setTokens(a, r) == [user |-> user, accessToken |-> a, refreshToken |-> r]

(* --------------------------- interceptors ----------------------------- *)
\* the request interceptor as it would be without the header assignment
RequestInterceptor_Never(hdr, token) == hdr

\* api.interceptors.request.use: the Authorization header after the interceptor
RequestInterceptor(hdr, token) ==
  IF Truthy(token) THEN Bearer(token) ELSE hdr

\* the guard as it would be without its `refreshToken` conjunct
EntersRefresh_IgnoresToken(status, retried, rt) ==
  status = "401" /\ ~retried

\* the guard as it would be without its `!originalRequest._retry` conjunct
EntersRefresh_IgnoresRetry(status, retried, rt) ==
  status = "401" /\ Truthy(rt)

\* the guard as it would be testing for any error status instead of 401
EntersRefresh_AnyStatus(status, retried, rt) ==
  status \in {"401", "500"} /\ ~retried /\ Truthy(rt)

\* the guard of the error handler: does this failure enter the refresh protocol
EntersRefresh(status, retried, rt) ==
  status = "401" /\ ~retried /\ Truthy(rt)

\* the handler as it would be with the test of isRefreshing inverted
JoinsQueue_Inverted(refreshing) == ~refreshing

\* the handler as it would be without the `if (isRefreshing)` branch
JoinsQueue_Never(refreshing) == FALSE

\* `if (isRefreshing)`: the failure joins the queue of the refresh in flight
JoinsQueue(refreshing) == refreshing

\* the forEach body as it would be without its `prom.resolve(token)` branch
Settle_NoResolve(prom, error, token) ==
  IF error # NoError
    THEN <<[r |-> prom, how |-> "reject", val |-> error]>>
  ELSE <<>>

\* what processQueue does with one waiter
Settle(prom, error, token) ==
  IF error # NoError
    THEN <<[r |-> prom, how |-> "reject", val |-> error]>>
  ELSE IF Truthy(token)
    THEN <<[r |-> prom, how |-> "resolve", val |-> token]>>
  ELSE <<>>

\* processQueue as it would be settling the waiters last in, first out
RECURSIVE processQueue_Reversed(_, _, _)
processQueue_Reversed(queue, error, token) ==
  IF queue = <<>> THEN <<>>
  ELSE processQueue_Reversed(Tail(queue), error, token)
         \o Settle(Head(queue), error, token)

\* processQueue as it would be settling only the first waiter
processQueue_HeadOnly(queue, error, token) ==
  IF queue = <<>> THEN <<>> ELSE Settle(Head(queue), error, token)

\* processQueue: the settlements it makes, in forEach order
RECURSIVE processQueue(_, _, _)
processQueue(queue, error, token) ==
  IF queue = <<>> THEN <<>>
  ELSE Settle(Head(queue), error, token) \o processQueue(Tail(queue), error, token)

Range(s) == {s[i] : i \in 1..Len(s)}

(* -------------------------- ProtectedRoute ---------------------------- *)
\* what a protected route yields
Children == "children"
NavigateLogin == <<"Navigate", "/login">>

\* ProtectedRoute as it would be with `accessToken === null` as its test
ProtectedRoute_NullOnly(token) ==
  IF token = Null THEN NavigateLogin ELSE Children

\* ProtectedRoute: `if (!accessToken) return <Navigate to="/login" replace />`
ProtectedRoute(token) ==
  IF ~Truthy(token) THEN NavigateLogin ELSE Children

(* ------------------------------ Init ---------------------------------- *)
\* the store as created, or as the persist middleware rehydrates it
Init ==
  /\ \/ /\ accessToken = Null /\ refreshToken = Null /\ user = Null
     \/ /\ accessToken = StoredAccess /\ user = StoredUser
        /\ refreshToken \in {Null, StoredRefresh}
  /\ isRefreshing = FALSE
  /\ failedQueue = <<>>
  /\ pc = [r \in Requests |-> "new"]
  /\ retry = [r \in Requests |-> FALSE]
  /\ auth = [r \in Requests |-> NoAuth]
  /\ sends = [r \in Requests |-> 0]
  /\ refreshInFlight = {}
  /\ refreshCalls = 0
  /\ n401 = 0
  /\ location = "app"
  /\ outcome = NoOutcome
  /\ settled = <<>>
  /\ last = [ev |-> "init", r |-> 0, status |-> "none"]
  /\ loading = FALSE
  /\ authError = Null
  /\ PagesAtRest

(* ----------------------------- actions -------------------------------- *)
\* The promise of a request settles to its caller: the config object is dropped.
\* A settled request keeps no state; what the caller got is in outcome.
Drop(f, done, blank) == [r \in Requests |-> IF r \in done THEN blank ELSE f[r]]

\* a page calls api.request(config): request interceptor, then the wire
Send(r) ==
  /\ pc[r] = "new"
  /\ \A q \in Requests : q < r => pc[q] # "new"   \* requests are numbered as issued
  /\ pc' = [pc EXCEPT ![r] = "sent"]
  /\ auth' = [auth EXCEPT ![r] = RequestInterceptor(auth[r], accessToken)]
  /\ sends' = [sends EXCEPT ![r] = @ + 1]
  /\ outcome' = NoOutcome
  /\ settled' = <<>>
  /\ last' = [ev |-> "send", r |-> r, status |-> "none"]
  /\ UNCHANGED <<storeVars, isRefreshing, failedQueue, retry, refreshInFlight,
                 refreshCalls, n401, location>>

\* the response interceptor on the answer to request r
Respond(r, status) ==
  /\ pc[r] = "sent"
  /\ status = "401" => n401 < Max401
  /\ n401' = IF status = "401" THEN n401 + 1 ELSE n401
  /\ last' = [ev |-> "response", r |-> r, status |-> status]
  /\ settled' = <<>>
  /\ IF status # "200" /\ EntersRefresh(status, retry[r], refreshToken)
       THEN /\ outcome' = NoOutcome
            /\ UNCHANGED <<auth, sends>>
            /\ IF JoinsQueue(isRefreshing)
                 THEN \* failedQueue.push({ resolve, reject })
                      /\ failedQueue' = Append(failedQueue, r)
                      /\ pc' = [pc EXCEPT ![r] = "queued"]
                      /\ UNCHANGED <<isRefreshing, retry, refreshInFlight, refreshCalls>>
                 ELSE \* _retry = true; isRefreshing = true; await axios.post(...)
                      /\ retry' = [retry EXCEPT ![r] = TRUE]
                      /\ isRefreshing' = TRUE
                      /\ refreshInFlight' =
                           refreshInFlight \cup {[by |-> r, rt |-> refreshToken]}
                      /\ refreshCalls' = refreshCalls + 1
                      /\ pc' = [pc EXCEPT ![r] = "refreshing"]
                      /\ UNCHANGED failedQueue
       ELSE \* (res) => res, or return Promise.reject(error)
            /\ outcome' = [NoOutcome EXCEPT ![r] =
                  [src |-> "request", status |-> status, send |-> sends[r]]]
            /\ pc' = [pc EXCEPT ![r] = "done"]
            /\ retry' = Drop(retry, {r}, FALSE)
            /\ auth' = Drop(auth, {r}, NoAuth)
            /\ sends' = Drop(sends, {r}, 0)
            /\ UNCHANGED <<isRefreshing, failedQueue, refreshInFlight, refreshCalls>>
  /\ UNCHANGED <<storeVars, location>>

\* the refresh call c answers 2xx with accessToken tok: the try block after the
\* await, then the .then callbacks of the waiters processQueue resolved
RefreshSucceed(c, tok) ==
  /\ c \in refreshInFlight
  /\ LET store == setTokens(tok, c.rt)
         made == processQueue(failedQueue, NoError, tok)
         resolved == {made[i].r : i \in 1..Len(made)}
         replayed == resolved \cup {c.by}
     IN /\ accessToken' = store.accessToken
        /\ refreshToken' = store.refreshToken
        /\ user' = store.user
        /\ settled' = made
        /\ failedQueue' = <<>>
        /\ isRefreshing' = FALSE
        \* headers.Authorization = `Bearer ${token}`; return api(originalRequest)
        /\ auth' = [r \in Requests |->
                      IF r \in replayed
                        THEN RequestInterceptor(Bearer(tok), store.accessToken)
                        ELSE auth[r]]
        /\ sends' = [r \in Requests |-> IF r \in replayed THEN sends[r] + 1 ELSE sends[r]]
        /\ pc' = [r \in Requests |->
                      IF r \in replayed THEN "sent"
                      ELSE IF r \in Range(failedQueue) THEN "hung"
                      ELSE pc[r]]
  /\ refreshInFlight' = refreshInFlight \ {c}
  /\ outcome' = NoOutcome
  /\ last' = [ev |-> "refreshOk", r |-> c.by, status |-> tok]
  /\ UNCHANGED <<retry, refreshCalls, n401, location>>

\* the catch block for the refresh call c failing with err, then the .catch
\* callbacks of the waiters processQueue rejected
CatchBranch(c, err) ==
  /\ LET made == processQueue(failedQueue, err, Null)
         rejected == {made[i].r : i \in 1..Len(made)}
         done == rejected \cup {c.by}
         failure == [src |-> "refresh", status |-> err, send |-> 0]
     IN /\ settled' = made
        /\ failedQueue' = <<>>
        /\ isRefreshing' = FALSE
        /\ accessToken' = logout.accessToken
        /\ refreshToken' = logout.refreshToken
        /\ user' = logout.user
        /\ location' = IF HasWindow THEN "/login" ELSE location
        /\ outcome' = [r \in Requests |-> IF r \in done THEN failure ELSE Pending]
        /\ pc' = [r \in Requests |->
                      IF r \in done THEN "done"
                      ELSE IF r \in Range(failedQueue) THEN "hung"
                      ELSE pc[r]]
        /\ retry' = Drop(retry, done, FALSE)
        /\ auth' = Drop(auth, done, NoAuth)
        /\ sends' = Drop(sends, done, 0)
  /\ refreshInFlight' = refreshInFlight \ {c}
  /\ last' = [ev |-> "refreshFail", r |-> c.by, status |-> err]
  /\ UNCHANGED <<refreshCalls, n401>>

\* the failure of the refresh call as it would be handled had the call been made
\* with `api.post`: the error handler of the client sees it first, and a 401
\* under isRefreshing joins failedQueue, whose refresh never settles
RefreshFail_ThroughInterceptor(c, err) ==
  /\ c \in refreshInFlight
  /\ IF EntersRefresh(err, FALSE, refreshToken) /\ JoinsQueue(isRefreshing)
       THEN /\ failedQueue' = Append(failedQueue, c.by)
            /\ outcome' = NoOutcome
            /\ settled' = <<>>
            /\ last' = [ev |-> "refreshFail", r |-> c.by, status |-> err]
            /\ UNCHANGED <<storeVars, isRefreshing, pc, retry, auth, sends,
                           refreshInFlight, refreshCalls, n401, location>>
       ELSE CatchBranch(c, err)

\* the refresh call c, made with axios.post outside the client, fails with err
RefreshFail(c, err) ==
  /\ c \in refreshInFlight
  /\ CatchBranch(c, err)

\* the Logout button of the app shell: onClick={logout}. The shell's pages are
\* behind ProtectedRoute, which leaves for /login when the store has no token.
Logout ==
  /\ Truthy(accessToken)
  /\ accessToken' = logout.accessToken
  /\ refreshToken' = logout.refreshToken
  /\ user' = logout.user
  /\ outcome' = NoOutcome
  /\ settled' = <<>>
  /\ last' = [ev |-> "logout", r |-> 0, status |-> "none"]
  /\ UNCHANGED <<isRefreshing, failedQueue, pc, retry, auth, sends,
                 refreshInFlight, refreshCalls, n401, location>>

\* the client under requests of the pages; nobody signs in
Next ==
  \/ \E r \in Requests : Send(r) /\ UNCHANGED otherVars
  \/ \E r \in Requests, s \in Statuses :
        Respond(r, s) /\ UNCHANGED otherVars
  \/ \E c \in refreshInFlight, tok \in RefreshAnswers(refreshDone + 1) :
        RefreshSucceed(c, tok) /\ UNCHANGED otherVars
  \/ \E c \in refreshInFlight, err \in RefreshFailures :
        RefreshFail(c, err) /\ UNCHANGED otherVars
  \/ Logout /\ UNCHANGED otherVars

Spec == Init /\ [][Next]_allVars

(* ------------------------------ sign-in -------------------------------- *)
\* the request that useAuthStore.login issues: api.post("/auth/signin", ...)
SignIn == 1

\* bodies of a 2xx answer to the sign-in request (refreshToken is optional)
SignInAnswers ==
  { [accessToken |-> "aL", refreshToken |-> rt, user |-> "uL"] : rt \in {"rL", Undefined} }

\* `refreshToken || null`
OrNull(t) == IF Truthy(t) THEN t ELSE Null

\* login's catch block: set({ error: message, loading: false }); throw
LoginCatch(failure) ==
  /\ authError' = failure
  /\ loading' = FALSE

\* login(email, password): set({ loading: true, error: null }), then the request
\* goes through the request interceptor onto the wire
Login ==
  /\ Send(SignIn)
  /\ loading' = TRUE
  /\ authError' = Null

\* the answer to the sign-in request: the response interceptor, then login's
\* continuation when the interceptor settles the request
SignInRespond(status, body) ==
  IF status = "200"
    THEN \* (res) => res; login stores what res.data carries
         /\ pc[SignIn] = "sent"
         /\ accessToken' = body.accessToken
         /\ refreshToken' = OrNull(body.refreshToken)
         /\ user' = body.user
         /\ loading' = FALSE
         /\ authError' = authError
         /\ outcome' = [NoOutcome EXCEPT ![SignIn] =
               [src |-> "request", status |-> status, send |-> sends[SignIn]]]
         /\ pc' = [pc EXCEPT ![SignIn] = "done"]
         /\ retry' = Drop(retry, {SignIn}, FALSE)
         /\ auth' = Drop(auth, {SignIn}, NoAuth)
         /\ sends' = Drop(sends, {SignIn}, 0)
         /\ settled' = <<>>
         /\ last' = [ev |-> "response", r |-> SignIn, status |-> status]
         /\ UNCHANGED <<isRefreshing, failedQueue, refreshInFlight, refreshCalls,
                        n401, location>>
    ELSE /\ Respond(SignIn, status)
         /\ IF outcome'[SignIn] # Pending
              THEN LoginCatch(outcome'[SignIn])
              ELSE UNCHANGED loginVars

\* the refresh call fails while the sign-in request was its trigger or a waiter:
\* the rejection reaches login's catch block in the same task
RefreshFailLogin(c, err) ==
  /\ RefreshFail(c, err)
  /\ IF outcome'[SignIn] # Pending
       THEN LoginCatch(outcome'[SignIn])
       ELSE UNCHANGED loginVars

\* the client with the sign-in request among the requests of the pages
NextLogin ==
  \/ Login /\ UNCHANGED pageVars
  \/ \E r \in Requests \ {SignIn} : Send(r) /\ UNCHANGED <<loginVars, pageVars>>
  \/ \E r \in Requests \ {SignIn}, s \in Statuses :
        Respond(r, s) /\ UNCHANGED <<loginVars, pageVars>>
  \/ \E s \in Statuses, body \in SignInAnswers : SignInRespond(s, body) /\ UNCHANGED pageVars
  \/ \E c \in refreshInFlight, tok \in RefreshAnswers(refreshDone + 1) :
        RefreshSucceed(c, tok) /\ UNCHANGED <<loginVars, pageVars>>
  \/ \E c \in refreshInFlight, err \in RefreshFailures : 
        RefreshFailLogin(c, err) /\ UNCHANGED pageVars
  \/ Logout /\ UNCHANGED <<loginVars, pageVars>>

SpecLogin == Init /\ [][NextLogin]_allVars

(* ------------------------------ BlogPage ------------------------------ *)
\* posts the backend holds, and loadPosts calls outstanding at once
NumPosts == 12
MaxLoads == 2

\* values the filter controls are given
Searches == {"", "a"}
Tags == {"", "t"}
\* two of the status options "all", "published", "draft"
BlogStatuses == {"all", "draft"}
\* two of the per-page options [5, 10, 20, 50]
BlogPageSizes == {5, 10}

Max(a, b) == IF a >= b THEN a ELSE b
Min(a, b) == IF a <= b THEN a ELSE b
\* Math.ceil(a / b) for a >= 0, b >= 1
CeilDiv(a, b) == (a + b - 1) \div b

\* the backend's posts that a query matches (post i of 1..NumPosts)
Matching(s, t, st) ==
  { i \in 1..NumPosts :
      /\ s = Undefined \/ i <= NumPosts \div 2
      /\ t = Undefined \/ i % 2 = 0
      /\ st = "all" \/ (st = "draft" <=> i % 3 = 0) }

\* GET /blog with sort: "desc": the page of the matching posts, newest (highest)
\* first, and meta.total
Server(params) ==
  LET all == Matching(params.search, params.tag, params.status)
      count == Cardinality(all)
      from == (params.page - 1) * params.limit + 1
      to == Min(params.page * params.limit, count)
      Rank(i) == Cardinality({j \in all : j >= i})
  IN [data |-> [k \in 1..Max(0, to - from + 1) |->
                  CHOOSE i \in all : Rank(i) = from + k - 1],
      total |-> count]

\* `search.trim() || undefined` for the values of Searches and Tags
OrUndefined(t) == IF t = "" THEN Undefined ELSE t

\* the params object loadPosts builds from the values its render closed over
Params(pg, n, s, t, st) ==
  [page |-> pg, limit |-> n, search |-> OrUndefined(s), tag |-> OrUndefined(t),
   status |-> st]

\* useMemo: Math.max(1, Math.ceil(total / pageSize))
pageCount == Max(1, CeilDiv(total, pageSize))

\* the element of index i removed from a sequence
RemoveAt(q, i) == SubSeq(q, 1, i - 1) \o SubSeq(q, i + 1, Len(q))

\* BlogPage after mount: both effects have run, the first load is on the wire
BlogMounted ==
  /\ posts = <<>> /\ total = 0 /\ page = 1 /\ pageSize = 10
  /\ statusFilter = "all" /\ tagFilter = "" /\ search = ""
  /\ selected = NoPost
  /\ pageLoading = TRUE /\ pageError = Null
  /\ loads = <<Params(1, 10, "", "", "all")>>

\* a filter or the page size changes: re-render, then the effect of lines
\* 113-115 (setPage(1)) and the effect of lines 163-166 (loadPosts with the page
\* this render closed over); if the page was not 1, the re-render with page 1
\* runs the second effect again
FilterChanged(s, t, st, n) ==
  /\ <<s, t, st, n>> # <<search, tagFilter, statusFilter, pageSize>>
  /\ Len(loads) + (IF page = 1 THEN 1 ELSE 2) <= MaxLoads
  /\ search' = s /\ tagFilter' = t /\ statusFilter' = st /\ pageSize' = n
  /\ page' = 1
  /\ loads' = loads \o <<Params(page, n, s, t, st)>>
                    \o (IF page = 1 THEN <<>> ELSE <<Params(1, n, s, t, st)>>)
  /\ pageLoading' = TRUE
  /\ pageError' = Null
  /\ UNCHANGED <<posts, total, selected>>

setSearch(s) == FilterChanged(s, tagFilter, statusFilter, pageSize)
setTagFilter(t) == FilterChanged(search, t, statusFilter, pageSize)
setStatusFilter(st) == FilterChanged(search, tagFilter, st, pageSize)
setPageSize(n) == FilterChanged(search, tagFilter, statusFilter, n)

\* Prev (d = -1) and Next (d = 1): setPage((p) => p + d), then the second effect
setPage(d) ==
  /\ d = -1 => page > 1
  /\ d = 1 => page < pageCount
  /\ Len(loads) < MaxLoads
  /\ page' = page + d
  /\ loads' = Append(loads, Params(page + d, pageSize, search, tagFilter, statusFilter))
  /\ pageLoading' = TRUE
  /\ pageError' = Null
  /\ UNCHANGED <<search, posts, total, pageSize, statusFilter, tagFilter, selected>>

\* api.get of the i-th outstanding load resolves: the rest of the try block and
\* finally; when line 153 changes the page, the second effect loads again
loadPostsResolved(i) ==
  /\ i \in 1..Len(loads)
  /\ LET params == loads[i]
         res == Server(params)
         postsData == res.data
         totalCount == res.total
         stepBack == totalCount > 0 /\ Len(postsData) = 0 /\ params.page > 1
         newPage == IF stepBack THEN Max(1, page - 1) ELSE page
     IN /\ posts' = postsData
        /\ selected' = IF Len(postsData) = 0 THEN NoPost
                       ELSE IF selected \in Range(postsData) THEN selected
                       ELSE postsData[1]
        /\ total' = totalCount
        /\ page' = newPage
        /\ IF newPage # page
             THEN /\ loads' = Append(RemoveAt(loads, i),
                       Params(newPage, pageSize, search, tagFilter, statusFilter))
                  /\ pageLoading' = TRUE
                  /\ pageError' = Null
             ELSE /\ loads' = RemoveAt(loads, i)
                  /\ pageLoading' = FALSE
                  /\ pageError' = pageError
  /\ UNCHANGED <<search, pageSize, statusFilter, tagFilter>>

\* api.get of the i-th outstanding load rejects: catch and finally
loadPostsRejected(i) ==
  /\ i \in 1..Len(loads)
  /\ loads' = RemoveAt(loads, i)
  /\ pageError' = "Failed to load blog posts"
  /\ pageLoading' = FALSE
  /\ UNCHANGED <<search, posts, total, page, pageSize, statusFilter, tagFilter, selected>>

\* a signed-in session with nothing in flight, under which a page is shown
SignedIn ==
  /\ accessToken = StoredAccess /\ refreshToken = StoredRefresh /\ user = StoredUser
  /\ isRefreshing = FALSE /\ failedQueue = <<>>
  /\ pc = [r \in Requests |-> "new"]
  /\ retry = [r \in Requests |-> FALSE]
  /\ auth = [r \in Requests |-> NoAuth]
  /\ sends = [r \in Requests |-> 0]
  /\ refreshInFlight = {} /\ refreshCalls = 0 /\ n401 = 0
  /\ location = "app"
  /\ outcome = NoOutcome /\ settled = <<>>
  /\ last = [ev |-> "init", r |-> 0, status |-> "none"]
  /\ loading = FALSE /\ authError = Null

\* what BlogPage never writes
notBlog == <<vars, loginVars, pagination, usersVars, listVars, questionsVars>>

InitBlog == SignedIn /\ UsersAtRest /\ ListAtRest /\ QuestionsAtRest /\ pagination = [page |-> 1, pageSize |-> 10]
              /\ BlogMounted

NextBlog ==
  \/ \E s \in Searches : setSearch(s) /\ UNCHANGED notBlog
  \/ \E t \in Tags : setTagFilter(t) /\ UNCHANGED notBlog
  \/ \E st \in BlogStatuses : setStatusFilter(st) /\ UNCHANGED notBlog
  \/ \E n \in BlogPageSizes : setPageSize(n) /\ UNCHANGED notBlog
  \/ \E d \in {-1, 1} : setPage(d) /\ UNCHANGED notBlog
  \/ \E i \in 1..MaxLoads : loadPostsResolved(i) /\ UNCHANGED notBlog
  \/ \E i \in 1..MaxLoads : loadPostsRejected(i) /\ UNCHANGED notBlog

SpecBlog == InitBlog /\ [][NextBlog]_allVars

(* ----------------------------- pagination ----------------------------- *)
\* Array.prototype.slice(start, end) on a sequence (indices from 0, end excluded;
\* a negative index counts from the end)
Slice(items, start, end) ==
  LET len == Len(items)
      from == IF start < 0 THEN Max(len + start, 0) ELSE Min(start, len)
      to == IF end < 0 THEN Max(len + end, 0) ELSE Min(end, len)
  IN SubSeq(items, from + 1, to)

\* paginate as it would be with `page * pageSize` as the start
paginate_OffByOnePage(items, state) ==
  Slice(items, state.page * state.pageSize,
        state.page * state.pageSize + state.pageSize)

\* paginate: items.slice((page - 1) * pageSize, start + pageSize)
paginate(items, state) ==
  LET start == (state.page - 1) * state.pageSize
      end == start + state.pageSize
  IN Slice(items, start, end)

\* buildPagination: pageCount = Math.max(1, Math.ceil(total / pageSize))
buildPagination(count, state) ==
  [page |-> state.page, pageSize |-> state.pageSize,
   pageCount |-> Max(1, CeilDiv(count, state.pageSize)), total |-> count]

\* lists and page sizes paginate is applied to
MaxLen == 3
MaxPageSize == 3
ItemValues == {"x", "y"}

Lists == UNION { [1..n -> ItemValues] : n \in 0..MaxLen }

\* what the calls of paginate never write
notPagination == <<vars, loginVars, flagVars, search, blogVars, usersVars,
                   questionsVars>>

\* a caller holds a list and a page size, and has asked for page 1
InitPagination ==
  /\ SignedIn /\ BlogAtRest /\ UsersAtRest /\ QuestionsAtRest
  /\ pageLoading = TRUE /\ pageError = Null /\ search = ""
  /\ list \in Lists
  /\ \E n \in 1..MaxPageSize : pagination = [page |-> 1, pageSize |-> n]
  /\ concat = paginate(list, pagination)

\* the caller asks for the next page, up to one page past pageCount
TurnPage ==
  /\ pagination.page <= buildPagination(Len(list), pagination).pageCount
  /\ pagination' = [pagination EXCEPT !.page = @ + 1]
  /\ concat' = concat \o paginate(list, pagination')
  /\ UNCHANGED <<list, notPagination>>

\* the caller starts over with another list or page size
NewList ==
  /\ list' \in Lists
  /\ \E n \in 1..MaxPageSize : pagination' = [page |-> 1, pageSize |-> n]
  /\ concat' = paginate(list', pagination')
  /\ UNCHANGED notPagination

NextPagination == TurnPage \/ NewList

SpecPagination == InitPagination /\ [][NextPagination]_allVars

(* ------------------------------ UsersPage ----------------------------- *)
\* users the backend lists
NumUsers == 45

\* values typed into the search box; role values of the users
UserSearches == {"", "a", "b", "zz"}
Roles == {"admin", "user"}
\* the per-page options [10, 20, 50]
UserPageSizes == {10, 20, 50}

\* user i of the listing: (u.role || "").toLowerCase()
RoleOf(i) == IF i % 5 = 0 THEN "admin" ELSE "user"
\* u.name or u.email includes the search term, case-insensitively
MatchesSearch(i, s) ==
  \/ s = ""
  \/ s = "a" /\ i <= 3
  \/ s = "b" /\ i % 2 = 0      \* "zz" occurs in no name

\* GET /profiles
Profiles == [i \in 1..NumUsers |-> i]

\* useMemo filtered: users.filter(matchesRole && matchesSearch)
filtered ==
  SelectSeq(users, LAMBDA u :
    /\ roleFilter = "all" \/ RoleOf(u) = roleFilter
    /\ MatchesSearch(u, search))

\* useMemo roleOptions: the roles seen among the users
roleOptions == {RoleOf(users[i]) : i \in 1..Len(users)}

\* what the render computes from the state
paged == paginate(filtered, pagination)
paginationInfo == buildPagination(Len(filtered), pagination)

\* UsersPage after mount: load() is awaiting apiFetch
UsersMounted ==
  /\ UsersAtRest
  /\ search = ""
  /\ pagination = [page |-> 1, pageSize |-> 10]
  /\ pageLoading = TRUE /\ pageError = Null

\* load() after apiFetch resolved: setUsers, finally
UsersLoadResolved ==
  /\ pageLoading
  /\ users' = Profiles
  /\ pageLoading' = FALSE
  /\ UNCHANGED <<pageError, search, roleFilter, pagination>>

\* load() after apiFetch rejected: catch, finally
UsersLoadRejected ==
  /\ pageLoading
  /\ pageError' = "User listing API not available"
  /\ pageLoading' = FALSE
  /\ UNCHANGED <<users, search, roleFilter, pagination>>

\* onChange of the search box: setSearch
UsersSetSearch(s) ==
  /\ s # search
  /\ search' = s
  /\ UNCHANGED <<flagVars, users, roleFilter, pagination>>

\* onChange of the role select: setRoleFilter (the options come from the users)
UsersSetRoleFilter(role) ==
  /\ role # roleFilter
  /\ role \in roleOptions \cup {"all"}
  /\ roleFilter' = role
  /\ UNCHANGED <<flagVars, users, search, pagination>>

\* onChange of the page-size select: page 1, pageSize n
UsersSetPageSize(n) ==
  /\ n # pagination.pageSize
  /\ pagination' = [pagination EXCEPT !.page = 1, !.pageSize = n]
  /\ UNCHANGED <<flagVars, users, search, roleFilter>>

\* Prev: disabled when page <= 1
UsersPrev ==
  /\ ~(pagination.page <= 1)
  /\ pagination' = [pagination EXCEPT !.page = @ - 1]
  /\ UNCHANGED <<flagVars, users, search, roleFilter>>

\* Next: disabled when page >= pageCount
UsersNext ==
  /\ ~(pagination.page >= paginationInfo.pageCount)
  /\ pagination' = [pagination EXCEPT !.page = @ + 1]
  /\ UNCHANGED <<flagVars, users, search, roleFilter>>

\* what UsersPage never writes
notUsers == <<vars, loginVars, blogVars, listVars, questionsVars>>

InitUsers == SignedIn /\ BlogAtRest /\ ListAtRest /\ QuestionsAtRest /\ UsersMounted

NextUsers ==
  \/ UsersLoadResolved /\ UNCHANGED notUsers
  \/ UsersLoadRejected /\ UNCHANGED notUsers
  \/ \E s \in UserSearches : UsersSetSearch(s) /\ UNCHANGED notUsers
  \/ \E role \in Roles \cup {"all"} : UsersSetRoleFilter(role) /\ UNCHANGED notUsers
  \/ \E n \in UserPageSizes : UsersSetPageSize(n) /\ UNCHANGED notUsers
  \/ UsersPrev /\ UNCHANGED notUsers
  \/ UsersNext /\ UNCHANGED notUsers

SpecUsers == InitUsers /\ [][NextUsers]_allVars

(* ---------------------------- QuestionsPage --------------------------- *)
\* subjects and chapters of the backend; the subject a chapter belongs to
SubjectIds == {"s1", "s2"}
ChapterIds == {"c1", "c2"}
SubjectOf(c) == IF c = "c1" THEN "s1" ELSE "s2"

\* handleSubjectClick(subjectId)
handleSubjectClick(subjectId) ==
  [viewMode |-> "chapters", selectedSubject |-> subjectId, selectedChapter |-> Null]

\* handleChapterView(chapterId)
handleChapterView(chapterId) ==
  [viewMode |-> "questions", selectedSubject |-> selectedSubject,
   selectedChapter |-> chapterId]

\* handleBackToSubjects
handleBackToSubjects ==
  [viewMode |-> "subjects", selectedSubject |-> Null, selectedChapter |-> Null]

\* handleBackToChapters as it would be without setSelectedChapter(null)
handleBackToChapters_KeepsChapter ==
  [viewMode |-> "chapters", selectedSubject |-> selectedSubject,
   selectedChapter |-> selectedChapter]

\* handleBackToChapters
handleBackToChapters ==
  [viewMode |-> "chapters", selectedSubject |-> selectedSubject,
   selectedChapter |-> Null]

\* the three setState calls of a navigation handler take effect
Navigate(nav) ==
  /\ viewMode' = nav.viewMode
  /\ selectedSubject' = nav.selectedSubject
  /\ selectedChapter' = nav.selectedChapter

\* QuestionsPage after mount: load() is awaiting its three lists
QuestionsMounted ==
  /\ viewMode = "subjects" /\ selectedSubject = Null /\ selectedChapter = Null
  /\ subjects = {} /\ chapters = {}
  /\ deletes = {} /\ gone = {}
  /\ reloads = 1
  /\ search = ""
  /\ pagination = [page |-> 1, pageSize |-> 10]
  /\ pageLoading = TRUE /\ pageError = Null

\* a subject row of the subjects view is clicked
ClickSubject(subjectId) ==
  /\ viewMode = "subjects" /\ subjectId \in subjects
  /\ Navigate(handleSubjectClick(subjectId))
  /\ UNCHANGED <<subjects, chapters, deletes, gone, reloads, flagVars, search,
                 pagination>>

\* View on a chapter of the chapters view; setPagination({ page: 1, pageSize: 10 })
ClickChapterView(chapterId) ==
  /\ viewMode = "chapters" /\ chapterId \in chapters
  /\ SubjectOf(chapterId) = selectedSubject
  /\ Navigate(handleChapterView(chapterId))
  /\ pagination' = [page |-> 1, pageSize |-> 10]
  /\ UNCHANGED <<subjects, chapters, deletes, gone, reloads, flagVars, search>>

\* Back to Subjects, in the chapters view
ClickBackToSubjects ==
  /\ viewMode = "chapters"
  /\ Navigate(handleBackToSubjects)
  /\ UNCHANGED <<subjects, chapters, deletes, gone, reloads, flagVars, search,
                 pagination>>

\* Back to Chapters, in the questions view; the effect on [search,
\* selectedChapter] sets page 1
ClickBackToChapters ==
  /\ viewMode = "questions"
  /\ Navigate(handleBackToChapters)
  /\ pagination' = [pagination EXCEPT !.page = 1]
  /\ UNCHANGED <<subjects, chapters, deletes, gone, reloads, flagVars, search>>

\* handleDeleteSubject up to its await (confirmed), from a subjects-view row; the
\* handler closes over the selectedSubject of the render that drew the button
handleDeleteSubject(subjectId) ==
  /\ viewMode = "subjects" /\ subjectId \in subjects
  /\ \A d \in deletes : d.id # subjectId
  /\ deletes' = deletes \cup
       {[kind |-> "subject", id |-> subjectId, selected |-> selectedSubject]}
  /\ UNCHANGED <<navVars, subjects, chapters, gone, reloads, flagVars, search,
                 pagination>>

\* handleDeleteChapter up to its await (confirmed), from a chapters-view row
handleDeleteChapter(chapterId) ==
  /\ viewMode = "chapters" /\ chapterId \in chapters
  /\ SubjectOf(chapterId) = selectedSubject
  /\ \A d \in deletes : d.id # chapterId
  /\ deletes' = deletes \cup
       {[kind |-> "chapter", id |-> chapterId, selected |-> selectedChapter]}
  /\ UNCHANGED <<navVars, subjects, chapters, gone, reloads, flagVars, search,
                 pagination>>

\* the DELETE call of d resolved: the comparison with the closed-over selection,
\* then load() up to its await
DeleteResolved(d) ==
  /\ d \in deletes
  /\ d.id \notin gone          \* the backend deletes a thing once
  /\ deletes' = deletes \ {d}
  /\ gone' = gone \cup {d.id}
  /\ IF d.selected = d.id
       THEN Navigate(IF d.kind = "subject" THEN handleBackToSubjects
                     ELSE handleBackToChapters)
       ELSE UNCHANGED navVars
  /\ reloads' = reloads + 1
  /\ pageLoading' = TRUE
  /\ pageError' = Null
  /\ UNCHANGED <<subjects, chapters, search, pagination>>

\* the DELETE call of d rejected: setError
DeleteRejected(d) ==
  /\ d \in deletes
  /\ deletes' = deletes \ {d}
  /\ pageError' = "Failed to delete"
  /\ UNCHANGED <<navVars, subjects, chapters, gone, reloads, pageLoading, search,
                 pagination>>

\* a load() gets its three lists: setSubjects, setChapters, finally
QuestionsLoadResolved ==
  /\ reloads > 0
  /\ reloads' = reloads - 1
  /\ subjects' = SubjectIds \ gone
  /\ chapters' = ChapterIds \ gone
  /\ pageLoading' = FALSE
  /\ UNCHANGED <<navVars, deletes, gone, pageError, search, pagination>>

\* a load() fails: catch, finally
QuestionsLoadRejected ==
  /\ reloads > 0
  /\ reloads' = reloads - 1
  /\ pageError' = "Failed to load data"
  /\ pageLoading' = FALSE
  /\ UNCHANGED <<navVars, subjects, chapters, deletes, gone, search, pagination>>

\* what QuestionsPage never writes
notQuestions == <<vars, loginVars, blogVars, usersVars, listVars>>

InitQuestions ==
  SignedIn /\ BlogAtRest /\ UsersAtRest /\ ListAtRest /\ QuestionsMounted

NextQuestions ==
  \/ \E s \in SubjectIds : ClickSubject(s) /\ UNCHANGED notQuestions
  \/ \E c \in ChapterIds : ClickChapterView(c) /\ UNCHANGED notQuestions
  \/ ClickBackToSubjects /\ UNCHANGED notQuestions
  \/ ClickBackToChapters /\ UNCHANGED notQuestions
  \/ \E s \in SubjectIds : handleDeleteSubject(s) /\ UNCHANGED notQuestions
  \/ \E c \in ChapterIds : handleDeleteChapter(c) /\ UNCHANGED notQuestions
  \/ \E d \in deletes : DeleteResolved(d) /\ UNCHANGED notQuestions
  \/ \E d \in deletes : DeleteRejected(d) /\ UNCHANGED notQuestions
  \/ QuestionsLoadResolved /\ UNCHANGED notQuestions
  \/ QuestionsLoadRejected /\ UNCHANGED notQuestions

SpecQuestions == InitQuestions /\ [][NextQuestions]_allVars

(* ======================= properties of the client ====================== *)
Issued == {r \in Requests : pc[r] # "new"}

\* the step just taken handled the answer `status` to request r, which was on the wire
Answered(r) == pc[r] = "sent" /\ last'.ev = "response" /\ last'.r = r

\* what the caller of r gets when the answer `status` to its current send is handed over
Handed(r, status) == [src |-> "request", status |-> status, send |-> sends[r]]

\* the rejection with the refresh call's error
RefreshError(err) == [src |-> "refresh", status |-> err, send |-> 0]

\* the requests settled by the last processQueue, in settlement order
SettledOrder(made) == [i \in 1..Len(made) |-> made[i].r]

(* C1: at most one refresh call is outstanding at any moment, and a 401 on a   *)
(* not-yet-retried request, handled with a refresh token stored while         *)
(* isRefreshing is true, is pushed onto failedQueue without starting a call.  *)
C1_AtMostOneRefresh ==
  [][ /\ Cardinality(refreshInFlight') <= 1
      /\ \A r \in Requests :
           ( /\ Answered(r) /\ last'.status = "401"
             /\ ~retry[r] /\ Truthy(refreshToken) /\ isRefreshing )
           => /\ failedQueue' = Append(failedQueue, r)
              /\ refreshCalls' = refreshCalls
              /\ refreshInFlight' = refreshInFlight ]_vars

\* a refresh call is outstanding with two requests waiting in its queue
C1_Witness ==
  /\ Cardinality(refreshInFlight) = 1
  /\ Len(failedQueue) = 2
  /\ last.ev = "response" /\ last.status = "401"
  /\ pc[last.r] = "queued"

(* C2, as stated: when every request issued has been answered 401 on its      *)
(* first send (and the store holds a token: no logout, no refresh answer      *)
(* without one), exactly one refresh call has been made, whatever the order   *)
(* of the answers, and after its success all of them are on the wire again    *)
(* with the refreshed token.                                                  *)
C2_AllAnswered401 ==
  /\ Issued # {}
  /\ Truthy(accessToken)
  /\ \A r \in Issued :
       \/ sends[r] = 1 /\ auth[r] = Bearer(StoredAccess)
                       /\ pc[r] \in {"queued", "refreshing"}
       \/ sends[r] = 2 /\ pc[r] = "sent"

C2_OneRefreshAnyOrder ==
  C2_AllAnswered401 =>
    /\ refreshCalls = 1
    /\ (last.ev = "refreshOk" /\ Truthy(last.status)) =>
         \A r \in Issued : pc[r] = "sent" /\ sends[r] = 2
                           /\ auth[r] = Bearer(last.status)

(* C2, amended: when the first refresh call settles with success after every  *)
(* issued request has had its 401 handled, that call is the only one made,    *)
(* and if it returned a token every one of the requests is on the wire a      *)
(* second time with Authorization: Bearer <that token>.                       *)
C2_OneRefreshWhenAllJoined ==
  ( /\ last.ev = "refreshOk" /\ refreshDone = 1
    /\ Issued # {}
    /\ \A r \in Issued : pc[r] # "done" /\ ~(pc[r] = "sent" /\ sends[r] = 1) )
  => /\ refreshCalls = 1
     /\ Truthy(last.status) =>
          /\ accessToken = last.status
          /\ \A r \in Issued : pc[r] = "sent" /\ sends[r] = 2
                               /\ auth[r] = Bearer(last.status)

\* three concurrent requests, all answered 401, are resent after one refresh
C2_Witness ==
  /\ last.ev = "refreshOk" /\ Truthy(last.status)
  /\ refreshCalls = 1 /\ refreshInFlight = {}
  /\ Cardinality(Issued) >= 3
  /\ \A r \in Issued : pc[r] = "sent" /\ sends[r] = 2 /\ auth[r] = Bearer(last.status)

(* C3: no request is sent a third time: a request on its second send that is  *)
(* answered 401 neither starts nor joins a refresh.                           *)
C3_NoThirdSend ==
  \A r \in Requests :
    /\ sends[r] <= 2
    /\ sends[r] = 2 => pc[r] \notin {"queued", "refreshing"}

(* C4: a 401 handled while no refresh token is stored is rejected to the      *)
(* caller at once; no refresh call is made, isRefreshing and failedQueue stay. *)
C4_NoRefreshTokenShortCircuit ==
  [][ \A r \in Requests :
        (Answered(r) /\ last'.status = "401" /\ ~Truthy(refreshToken))
        => /\ outcome'[r] = Handed(r, "401")
           /\ pc'[r] = "done"
           /\ refreshCalls' = refreshCalls
           /\ refreshInFlight' = refreshInFlight
           /\ isRefreshing' = isRefreshing
           /\ failedQueue' = failedQueue ]_vars

\* a first-send 401 surfaced with an access token but no refresh token stored
C4_Witness ==
  /\ last.ev = "response" /\ last.status = "401"
  /\ outcome[last.r] = [src |-> "request", status |-> "401", send |-> 1]
  /\ Truthy(accessToken) /\ refreshToken = Null
  /\ refreshCalls = 0

(* C5: when the refresh call fails, every waiter that was in failedQueue is   *)
(* rejected with the refresh call's error, accessToken, refreshToken and user *)
(* become null, and window.location.href is set to /login.                    *)
C5_RefreshFailureCleanup ==
  [][ last'.ev = "refreshFail" =>
        /\ \A i \in 1..Len(failedQueue) :
             /\ outcome'[failedQueue[i]] = RefreshError(last'.status)
             /\ pc'[failedQueue[i]] = "done"
        /\ accessToken' = Null /\ refreshToken' = Null /\ user' = Null
        /\ location' = "/login" ]_vars

\* a failed refresh that rejected two waiters
C5_Witness ==
  /\ last.ev = "refreshFail"
  /\ Len(settled) = 2
  /\ \A i \in 1..Len(settled) : outcome[settled[i].r] = RefreshError(last.status)
  /\ accessToken = Null /\ refreshToken = Null /\ location = "/login"

(* C6: the waiters of one refresh are resolved, or rejected, in exactly the   *)
(* order in which they were pushed onto failedQueue.                          *)
C6_FifoSettlement ==
  [][ ( /\ last'.ev \in {"refreshOk", "refreshFail"}
        /\ last'.ev = "refreshOk" => Truthy(last'.status) )
      => SettledOrder(settled') = failedQueue ]_vars

\* two waiters resolved in their order of arrival, which is not their order of issue
C6_Witness ==
  /\ last.ev = "refreshOk"
  /\ Len(settled) = 2
  /\ settled[1].r > settled[2].r
  /\ settled[1].how = "resolve" /\ settled[2].how = "resolve"

C8_AlwaysClearsSession ==
  ( \/ last.ev = "refreshFail"
    \/ last.ev = "response" /\ last.status = "401" /\ outcome[last.r] # Pending )
  => /\ accessToken = Null /\ refreshToken = Null /\ user = Null
     /\ location = "/login"
     /\ outcome[last.r] # Pending

(* C8, amended: the failure of the refresh call clears the session, sets the  *)
(* location to /login and rejects the caller with the refresh error; a 401    *)
(* with no refresh token stored, or on a request already marked retried, is   *)
(* rejected to the caller and leaves the session and the location as they are. *)
C8_OnlyRefreshFailureClears ==
  [][ /\ last'.ev = "refreshFail" =>
           /\ accessToken' = Null /\ refreshToken' = Null /\ user' = Null
           /\ location' = "/login"
           /\ outcome'[last'.r] = RefreshError(last'.status)
      /\ \A r \in Requests :
           ( /\ Answered(r) /\ last'.status = "401"
             /\ (retry[r] \/ ~Truthy(refreshToken)) )
           => /\ outcome'[r] = Handed(r, "401")
              /\ UNCHANGED <<storeVars, location>> ]_vars

\* the 401 of a resend is surfaced and the session is still there
C8_Witness ==
  /\ last.ev = "response" /\ last.status = "401"
  /\ outcome[last.r] = [src |-> "request", status |-> "401", send |-> 2]
  /\ Truthy(accessToken) /\ Truthy(refreshToken)
  /\ location = "app"

(* C9: every dispatch, first sends and replays alike, goes out with           *)
(* Authorization: Bearer <the store's accessToken at that moment> when the    *)
(* store holds a token, and with the headers it was given when it holds none. *)
C9_BearerOfStoreToken ==
  [][ \A r \in Requests :
        sends'[r] = sends[r] + 1 =>
          auth'[r] = IF Truthy(accessToken') THEN Bearer(accessToken')
                     ELSE IF pc[r] = "new" THEN auth[r]
                     ELSE Bearer(last'.status) ]_vars

\* a replay carries the refreshed token while an older request carries the stale one
C9_Witness ==
  /\ last.ev = "refreshOk" /\ Truthy(accessToken)
  /\ \E r, q \in Requests :
       /\ sends[r] = 2 /\ pc[r] = "sent" /\ auth[r] = Bearer(accessToken)
       /\ sends[q] = 1 /\ pc[q] = "sent" /\ auth[q] = Bearer(StoredAccess)

(* C10: an answer that does not enter the refresh protocol (2xx, an error     *)
(* status other than 401, no response, a 401 on a retried request, a 401 with *)
(* no refresh token) is handed to the caller as it is, makes no refresh call  *)
(* and leaves isRefreshing, failedQueue and the session as they are.          *)
C10_PassThroughFrame ==
  [][ \A r \in Requests :
        ( /\ Answered(r)
          /\ (last'.status # "401" \/ retry[r] \/ ~Truthy(refreshToken)) )
        => /\ outcome'[r] = Handed(r, last'.status)
           /\ pc'[r] = "done"
           /\ UNCHANGED <<storeVars, isRefreshing, failedQueue,
                          refreshInFlight, refreshCalls>> ]_vars

\* an error status other than 401 is handed over while a refresh is in flight
C10_Witness ==
  /\ last.ev = "response" /\ last.status = "500"
  /\ outcome[last.r].status = "500"
  /\ isRefreshing /\ Len(failedQueue) >= 1
  /\ Cardinality(refreshInFlight) = 1

(* C11: on refresh success the store's accessToken becomes the token the      *)
(* refresh call returned and the store's refreshToken is what it was          *)
(* immediately before the success was processed.                              *)
C11_RefreshKeepsRefreshToken ==
  [][ last'.ev = "refreshOk" =>
        /\ accessToken' = last'.status
        /\ refreshToken' = refreshToken ]_vars

(* C12: when the refresh call fails, the caller of the request that started   *)
(* it is rejected with that request's own 401, and the session is cleared.    *)
C12_TriggerGetsOriginal401 ==
  last.ev = "refreshFail" =>
    /\ outcome[last.r].src = "request" /\ outcome[last.r].status = "401"
    /\ accessToken = Null /\ refreshToken = Null

(* C13: every waiter pushed onto failedQueue is settled when the refresh call *)
(* it waits on settles, whatever the call's outcome: once processQueue has    *)
(* emptied the queue no waiter is left pending.                               *)
C13_NoWaiterLeftPending ==
  \A r \in Requests : pc[r] # "hung"

\* request r went on the wire once more in this step, carrying the token tok
Resent(r, tok) ==
  pc'[r] = "sent" /\ sends'[r] = sends[r] + 1 /\ auth'[r] = Bearer(tok)

(* C14: on a refresh success that returned a token, every waiter of           *)
(* failedQueue is resolved with that token and its request is resent with     *)
(* Authorization: Bearer <new token>; the request that started the refresh    *)
(* is resent the same way.                                                    *)
C14_SuccessReplaysEveryone ==
  [][ (last'.ev = "refreshOk" /\ Truthy(last'.status)) =>
        /\ Len(settled') = Len(failedQueue)
        /\ \A r \in Range(failedQueue) :
             /\ [r |-> r, how |-> "resolve", val |-> last'.status] \in Range(settled')
             /\ Resent(r, last'.status)
        /\ Resent(last'.r, last'.status) ]_vars

\* one waiter resolved with the new token and on the wire again, as is the trigger
C14_Witness ==
  /\ last.ev = "refreshOk" /\ Truthy(last.status)
  /\ Len(settled) = 1
  /\ settled[1].how = "resolve" /\ settled[1].val = accessToken
  /\ pc[settled[1].r] = "sent" /\ auth[settled[1].r] = Bearer(accessToken)
  /\ pc[last.r] = "sent" /\ auth[last.r] = Bearer(accessToken)
  /\ settled[1].r # last.r

(* C15: a request whose first 401 entered the refresh protocol is marked      *)
(* retried from then on, whether it started the refresh or joined the queue.  *)
C15_QueuedIsMarkedRetried ==
  \A r \in Requests : pc[r] \in {"queued", "refreshing"} => retry[r]

(* C16: the request that takes the client from Idle to Refreshing is marked   *)
(* retried in the task that issues the refresh call, and a 401 answer to a    *)
(* request marked retried is rejected to its caller without starting or       *)
(* joining a refresh.                                                         *)
C16_TriggerMarkedBeforeRefresh ==
  [][ \A r \in Requests :
        /\ (pc[r] # "refreshing" /\ pc'[r] = "refreshing")
           => /\ ~isRefreshing /\ isRefreshing'
              /\ retry'[r]
              /\ refreshCalls' = refreshCalls + 1
        /\ (Answered(r) /\ last'.status = "401" /\ retry[r])
           => /\ outcome'[r] = Handed(r, "401")
              /\ refreshCalls' = refreshCalls
              /\ refreshInFlight' = refreshInFlight
              /\ failedQueue' = failedQueue ]_vars

\* the replay of the only request, which started the one refresh, ends in its 401
C16_Witness ==
  /\ Issued = {1} /\ pc[1] = "done"
  /\ refreshCalls = 1 /\ refreshInFlight = {} /\ ~isRefreshing
  /\ last.ev = "response" /\ last.r = 1 /\ last.status = "401"
  /\ outcome[1] = [src |-> "request", status |-> "401", send |-> 2]

(* C17: each transition from Idle to Refreshing issues exactly one call to    *)
(* the refresh endpoint, with the refresh token stored when the 401 was       *)
(* handled; a 401 answer to that call is handled as a refresh failure only:   *)
(* it ends the call, enqueues no waiter and starts no further call.           *)
C17_OneCallOutsideInterceptors ==
  [][ /\ (~isRefreshing /\ isRefreshing') =>
           /\ refreshCalls' = refreshCalls + 1
           /\ refreshInFlight' =
                refreshInFlight \cup {[by |-> last'.r, rt |-> refreshToken]}
           /\ Truthy(refreshToken)
      /\ (last'.ev = "refreshFail" /\ last'.status = "401") =>
           /\ refreshCalls' = refreshCalls
           /\ refreshInFlight' = {}
           /\ failedQueue' = <<>>
           /\ ~isRefreshing'
           /\ outcome'[last'.r] = RefreshError("401") ]_vars

\* the refresh call was answered 401 while a waiter was queued: one call, none left
C17_Witness ==
  /\ last.ev = "refreshFail" /\ last.status = "401"
  /\ refreshCalls = 1 /\ refreshInFlight = {}
  /\ Len(settled) = 1 /\ failedQueue = <<>>
  /\ ~isRefreshing

(* C18: once a refresh attempt has completed, by success or by failure,       *)
(* isRefreshing is false and failedQueue is empty; between tasks failedQueue  *)
(* is non-empty only while isRefreshing is true.                              *)
C18_QueueOnlyWhileRefreshing ==
  /\ last.ev \in {"refreshOk", "refreshFail"} =>
       ~isRefreshing /\ failedQueue = <<>>
  /\ failedQueue # <<>> => isRefreshing

\* a refresh that had two waiters has completed by success
C18_Witness ==
  /\ last.ev = "refreshOk" /\ Len(settled) = 2
  /\ ~isRefreshing /\ failedQueue = <<>>

(* C19: a request waiting in failedQueue is not resent before the refresh in  *)
(* flight has settled: it goes on the wire again only in the task of a        *)
(* refresh success, when the store holds the new access token, and a refresh  *)
(* failure rejects it without a resend.                                       *)
C19_WaiterResentOnlyAfterRefresh ==
  [][ \A r \in Requests :
        pc[r] = "queued" =>
          /\ pc'[r] = "sent" =>
               /\ last'.ev = "refreshOk" /\ Truthy(last'.status)
               /\ refreshInFlight' = {}
               /\ accessToken' = last'.status
               /\ Resent(r, accessToken')
          /\ last'.ev = "refreshFail" =>
               pc'[r] = "done" /\ outcome'[r] = RefreshError(last'.status)
          /\ last'.ev \notin {"refreshOk", "refreshFail"} =>
               pc'[r] = "queued" /\ sends'[r] = sends[r] ]_vars

\* two waiters are on the wire again, with the token the store now holds
C19_Witness ==
  /\ last.ev = "refreshOk" /\ refreshInFlight = {}
  /\ Len(settled) = 2
  /\ \A i \in 1..2 : /\ pc[settled[i].r] = "sent" /\ sends[settled[i].r] = 2
                     /\ auth[settled[i].r] = Bearer(accessToken)
  /\ accessToken = last.status

(* C20: once the session is cleared, accessToken and refreshToken stay null   *)
(* (no step of this specification is a login), also when the logout happens   *)
(* while a refresh call is outstanding that later succeeds.                   *)
C20_ClearedStaysCleared ==
  [][ (accessToken = Null /\ refreshToken = Null)
      => (accessToken' = Null /\ refreshToken' = Null) ]_vars

(* C21: after a refresh call has failed (the only step that navigates to      *)
(* /login), no call to the refresh endpoint is outstanding or started again,  *)
(* whatever 401s arrive later, also for requests that were on the wire when   *)
(* the refresh failed: the store holds no refresh token (no step of this      *)
(* specification is a login).                                                 *)
C21_NoRefreshAfterFailure ==
  location = "/login" =>
    /\ refreshInFlight = {}
    /\ ~isRefreshing
    /\ refreshToken = Null

\* a request sent with the old token, on the wire when the refresh failed, was
\* answered 401 afterwards and handed to its caller
C21_Witness ==
  /\ location = "/login"
  /\ last.ev = "response" /\ last.status = "401"
  /\ outcome[last.r] = [src |-> "request", status |-> "401", send |-> 1]
  /\ \E q \in Requests : q > last.r /\ pc[q] = "sent" /\ auth[q] = Bearer(StoredAccess)
  /\ refreshCalls = 1

(* C22: a 401 answer to the sign-in request is reported to login's caller as  *)
(* a login failure in the task that handles it, without a refresh call, with  *)
(* the stored tokens unchanged and without a /login navigation, whatever      *)
(* tokens the store holds.                                                    *)
C22_SignIn401IsLoginFailure ==
  [][ (Answered(SignIn) /\ last'.status = "401") =>
        /\ outcome'[SignIn] = Handed(SignIn, "401")
        /\ authError' = Handed(SignIn, "401")
        /\ ~loading'
        /\ refreshCalls' = refreshCalls
        /\ ~isRefreshing'
        /\ UNCHANGED storeVars
        /\ location' = location ]_allVars

(* C23 (as stated): a protected route yields its child page if and only if    *)
(* the store holds a non-null accessToken.                                    *)
C23_PageIffNonNull ==
  (ProtectedRoute(accessToken) = Children) <=> (accessToken # Null)

(* C23 (amended): a protected route yields its child page if and only if the  *)
(* stored accessToken is truthy; whenever accessToken is null (initially,     *)
(* after logout, after a failed refresh) it yields the redirect to /login.    *)
C23_PageIffTruthy ==
  /\ (ProtectedRoute(accessToken) = Children) <=> Truthy(accessToken)
  /\ accessToken = Null => ProtectedRoute(accessToken) = NavigateLogin
  /\ last.ev \in {"logout", "refreshFail"} =>
       ProtectedRoute(accessToken) = NavigateLogin

\* a refresh has failed in a session that had a token: the route redirects
C23_Witness ==
  /\ last.ev = "refreshFail"
  /\ accessToken = Null
  /\ location = "/login"
  /\ ProtectedRoute(accessToken) = NavigateLogin

(* C24: in BlogPage, once every outstanding list load has settled (and none   *)
(* has left an error), the displayed posts and total are those the backend    *)
(* returns for the current filter and page values, i.e. for the most recently *)
(* issued load, whatever the order in which the answers arrived.              *)
C24_LatestLoadShown ==
  (loads = <<>> /\ pageError = Null) =>
    LET res == Server(Params(page, pageSize, search, tagFilter, statusFilter))
    IN posts = res.data /\ total = res.total

(* C25: in UsersPage (TestsPage has the same state and handlers), after any   *)
(* sequence of search, filter and page-size changes and Prev/Next clicks, the *)
(* current page satisfies 1 <= page <= pageCount, pageCount being computed    *)
(* from the filtered list.                                                    *)
C25_PageWithinPageCount ==
  /\ 1 <= pagination.page
  /\ pagination.page <= paginationInfo.pageCount

(* C26: for every list and every pageSize >= 1, buildPagination gives         *)
(* pageCount = max(1, ceil(total / pageSize)), and paginate partitions the    *)
(* list: the pages 1..pageCount concatenated are the list in order, every     *)
(* page has at most pageSize entries, every page past pageCount is empty.     *)
C26_PaginatePartitions ==
  LET info == buildPagination(Len(list), pagination)
      size == pagination.pageSize
      here == paginate(list, pagination)
  IN /\ info.total = Len(list)
     \* pageCount is the least k >= 1 with k * pageSize >= total
     /\ info.pageCount >= 1
     /\ info.pageCount * size >= Len(list)
     /\ info.pageCount > 1 => (info.pageCount - 1) * size < Len(list)
     /\ Len(here) <= size
     /\ pagination.page < info.pageCount =>
          /\ Len(here) = size
          /\ concat = SubSeq(list, 1, pagination.page * size)
     /\ pagination.page >= info.pageCount => concat = list
     /\ pagination.page > info.pageCount => here = <<>>

\* three items in pages of two: the second, partial page completes the list
C26_Witness ==
  /\ Len(list) = 3 /\ list[1] # list[2]
  /\ pagination = [page |-> 2, pageSize |-> 2]
  /\ paginate(list, pagination) = <<list[3]>>
  /\ concat = list

(* C27: in QuestionsPage, after any sequence of navigation and delete         *)
(* handlers: viewMode "subjects" implies no subject and no chapter selected,  *)
(* "chapters" implies a subject and no chapter selected, "questions" implies  *)
(* both selected.                                                             *)
C27_ViewModeMatchesSelection ==
  /\ viewMode \in {"subjects", "chapters", "questions"}
  /\ viewMode = "subjects" => selectedSubject = Null /\ selectedChapter = Null
  /\ viewMode = "chapters" => selectedSubject # Null /\ selectedChapter = Null
  /\ viewMode = "questions" => selectedSubject # Null /\ selectedChapter # Null

\* the chapter being viewed has been deleted by a handler started in the chapters
\* view, and the user has gone back to the chapters view
C27_Witness ==
  /\ viewMode = "chapters" /\ selectedSubject \in SubjectIds /\ selectedChapter = Null
  /\ \E c \in gone : c \in ChapterIds /\ SubjectOf(c) = selectedSubject
  /\ deletes = {}

=============================================================================
